---- MODULE Spec2Model ----
(***************************************************************************)
(* One evaluation of an extension request by Policy.apply (src/policy.py)  *)
(* against the student's and the optional partner's StudentRecord          *)
(* (src/record.py), the roster sheet behind them, the Slack sink and the   *)
(* confirmation e-mails.                                                   *)
(***************************************************************************)
EXTENDS Integers, Sequences, FiniteSets, TLC

\* ------------------------------------------------------------------ bounds
MaxDays == 2

\* ------------------------------------------------------- record.py constants
APPROVAL_STATUS_REQUESTED_MEETING == "Requested Meeting"
APPROVAL_STATUS_PENDING == "Pending"
APPROVAL_STATUS_AUTO_APPROVED == "Auto Approved"
APPROVAL_STATUS_MANUAL_APPROVED == "Manually Approved"

\* ------------------------------------------------------------------ values
\* A cell of table_record / of the sheet: a Python int, a Python str (a
\* sequence of characters), or an approval status literal.
IntValue(n) == [kind |-> "int", num |-> n, txt |-> <<>>, name |-> ""]
StrValue(s) == [kind |-> "str", num |-> 0, txt |-> s, name |-> ""]
StatusValue(s) == [kind |-> "status", num |-> 0, txt |-> <<>>, name |-> s]
BoolValue(b) == [kind |-> "bool", num |-> IF b THEN 1 ELSE 0, txt |-> <<>>, name |-> ""]

Digits == <<"0", "1", "2", "3", "4", "5", "6", "7", "8", "9">>

DigitChars == {Digits[i] : i \in 1..10}

DigitValue(c) == (CHOOSE i \in 1..10 : Digits[i] = c) - 1

RECURSIVE NatToChars(_)
NatToChars(n) ==
    IF n < 10 THEN <<Digits[n + 1]>>
    ELSE Append(NatToChars(n \div 10), Digits[(n % 10) + 1])

\* str(x) of a cell value
PyStr(v) ==
    IF v.kind = "int"
    THEN IF v.num < 0 THEN <<"-">> \o NatToChars(0 - v.num) ELSE NatToChars(v.num)
    ELSE IF v.kind = "status" THEN <<v.name>>
    ELSE IF v.kind = "bool" THEN <<IF v.num = 1 THEN "True" ELSE "False">>
    ELSE v.txt

RECURSIVE LStrip(_)
LStrip(s) == IF s # <<>> /\ Head(s) = " " THEN LStrip(Tail(s)) ELSE s

RECURSIVE RStrip(_)
RStrip(s) ==
    IF s # <<>> /\ s[Len(s)] = " " THEN RStrip(SubSeq(s, 1, Len(s) - 1)) ELSE s

\* str.strip()
PyStrip(s) == LStrip(RStrip(s))

RECURSIVE DigitsToNat(_)
DigitsToNat(s) ==
    IF s = <<>> THEN 0
    ELSE 10 * DigitsToNat(SubSeq(s, 1, Len(s) - 1)) + DigitValue(s[Len(s)])

AllDigits(s) == s # <<>> /\ \A i \in 1..Len(s) : s[i] \in DigitChars

\* int(s) succeeds on an optionally signed run of digits
PyIntOk(s) ==
    IF s # <<>> /\ Head(s) \in {"-", "+"} THEN AllDigits(Tail(s)) ELSE AllDigits(s)

PyInt(s) ==
    IF Head(s) = "-" THEN 0 - DigitsToNat(Tail(s))
    ELSE IF Head(s) = "+" THEN DigitsToNat(Tail(s))
    ELSE DigitsToNat(s)

\* --------------------------------------------------------------- the roster
Assignments == <<"hw1", "proj1">>

AssignmentIds == {Assignments[i] : i \in 1..Len(Assignments)}

Parties == {"student", "partner"}

NoReason == [rule |-> "None", num |-> 0]


Keys == {"approval_status", "is_dsp"} \cup AssignmentIds

Days == 0..MaxDays

\* thresholds read from the environment sheet
AutoApproveThresholds == {0, MaxDays - 1}

AutoApproveThresholdsDsp == {1}

AutoApproveAssignmentThresholds == {1, 2}

\* what a roster cell of an assignment column can hold when the row is loaded
StudentCells ==
    [hw1 : {StrValue(<<>>), IntValue(0), StrValue(<<" ", "1", " ">>)},
     proj1 : {StrValue(<<" ">>), IntValue(MaxDays), StrValue(<<"1", "x">>)}]

PartnerCells ==
    [hw1 : {StrValue(<<>>)}, proj1 : {StrValue(<<>>), IntValue(MaxDays + 1)}]

StudentStatuses ==
    {"", APPROVAL_STATUS_REQUESTED_MEETING, APPROVAL_STATUS_PENDING}

PartnerStatuses == {APPROVAL_STATUS_MANUAL_APPROVED, APPROVAL_STATUS_PENDING}

DueDates == {0, 1}

RECURSIVE RequestsFrom(_, _, _)
RequestsFrom(i, chosen, days) ==
    IF i > Len(Assignments) THEN <<>>
    ELSE (IF Assignments[i] \in chosen
          THEN <<[assignment |-> Assignments[i], num_days |-> days[Assignments[i]]]>>
          ELSE <<>>) \o RequestsFrom(i + 1, chosen, days)

RequestLists ==
    {RequestsFrom(1, chosen, days) :
        chosen \in SUBSET AssignmentIds, days \in [AssignmentIds -> Days]}

Row(status, dsp, cells) ==
    [k \in Keys |->
        IF k = "approval_status" THEN StatusValue(status)
        ELSE IF k = "is_dsp" THEN BoolValue(dsp)
        ELSE cells[k]]

\* the row nobody loads when the submission names no partner
NoRow == Row("", FALSE, [hw1 |-> StrValue(<<>>), proj1 |-> StrValue(<<>>)])

VARIABLES
    env,            \* Environment: the three auto-approve thresholds
    assignments,    \* AssignmentList: id -> [due_date, partner]
    submission,     \* FormSubmission
    silent,         \* argument of Policy.apply
    table_record,   \* StudentRecord.table_record of student and partner
    write_queue,    \* StudentRecord.write_queue of student and partner
    sheet,          \* the roster rows of student and partner in the store
    needs_human,    \* local of process_submission / apply
    work_in_progress, \* local of check_work_in_progress / apply
    pc,             \* position of the evaluation
    idx,            \* position of the loop of process_submission
    fl,             \* the flush in progress: whose, position, where it returns
    slack,          \* SlackManager: suppressed, updates sent, warnings added
    emails,         \* Email.send attempts: target and whether it succeeded
    error,          \* the exception that left apply, or "None"
    processed,      \* history: one entry per pair the loop has handled
    loaded          \* history: table_record as fetched

vars ==
    <<env, assignments, submission, silent, table_record, write_queue, sheet,
      needs_human, work_in_progress, pc, idx, fl, slack, emails, error,
      processed, loaded>>

\* ------------------------------------------------------------ submission.py
knows_assignments == Len(submission.requests) > 0

get_num_requests == Len(submission.requests)

claims_dsp == submission.claims_dsp

has_partner == submission.has_partner

\* assignments.py
is_past_due(assignment, request_time) ==
    assignments[assignment].due_date < request_time

is_partner_assignment(assignment) == assignments[assignment].partner

\* ---------------------------------------------------------------- record.py
\* a plausible slip: a cell that does not parse is read as no request
get_assignmentSilentDefault(record, assignment_id) ==
    LET result == PyStrip(PyStr(record[assignment_id]))
    IN  IF Len(result) > 0 /\ PyIntOk(result)
        THEN [raised |-> FALSE, none |-> FALSE, value |-> PyInt(result)]
        ELSE [raised |-> FALSE, none |-> TRUE, value |-> 0]

get_assignment(record, assignment_id) ==
    LET result == PyStrip(PyStr(record[assignment_id]))
    IN  IF Len(result) > 0
        THEN IF PyIntOk(result)
             THEN [raised |-> FALSE, none |-> FALSE, value |-> PyInt(result)]
             ELSE [raised |-> TRUE, none |-> FALSE, value |-> 0]
        ELSE [raised |-> FALSE, none |-> TRUE, value |-> 0]

get_request(record, assignment_id) == get_assignment(record, assignment_id)

get_status(record) == record["approval_status"].name

is_dsp(record) == record["is_dsp"].num = 1

has_wip_status(record) ==
    get_status(record) \in {APPROVAL_STATUS_PENDING, APPROVAL_STATUS_REQUESTED_MEETING}

queue_write_back(queue, col_key, col_value) ==
    Append(queue, [col_key |-> col_key, col_value |-> col_value])

queue_approval_status(queue, status) ==
    queue_write_back(queue, "approval_status", StatusValue(status))

set_status_requested_meeting(queue) ==
    queue_approval_status(queue, APPROVAL_STATUS_REQUESTED_MEETING)

set_status_pending(queue) == queue_approval_status(queue, APPROVAL_STATUS_PENDING)

set_status_approved(queue) ==
    queue_approval_status(queue, APPROVAL_STATUS_AUTO_APPROVED)

\* Python truthiness of an Optional[int]
Truthy(opt) == ~opt.none /\ opt.value # 0


\* ------------------------------------------------------------------- slack
send_student_update(sl, message, reason, autoapprove) ==
    [sl EXCEPT !.updates =
        Append(@, [message |-> message, reason |-> reason, autoapprove |-> autoapprove])]

add_warning(sl, warning) == [sl EXCEPT !.warnings = Append(@, warning)]

MsgMeeting == "A student requested a student support meeting."

MsgNeedsReview == "An extension request needs review"

MsgWipStudent ==
    "An extension request needs review (there is work-in-progress for this student's record)."

MsgWipPartner ==
    "An extension request needs review (there is work-in-progress for this student's partner)."

MsgWipSolo ==
    "An extension request needs review (there is work in progress for this student's record)."

MsgApproved == "An extension request was automatically approved!"

MsgApprovedPartner ==
    "An extension request was automatically approved (for a partner, too!)"

\* ------------------------------------------------------------------- Init
Init ==
    /\ env \in [auto_approve_threshold : AutoApproveThresholds,
                auto_approve_threshold_dsp : AutoApproveThresholdsDsp,
                auto_approve_assignment_threshold : AutoApproveAssignmentThresholds]
    /\ assignments \in [hw1 : [due_date : DueDates, partner : {FALSE}],
                        proj1 : [due_date : {1}, partner : {TRUE}]]
    /\ submission \in [requests : RequestLists, claims_dsp : BOOLEAN,
                       has_partner : BOOLEAN, timestamp : {1}]
    /\ silent \in BOOLEAN
    /\ \E ss \in StudentStatuses, sd \in BOOLEAN, sc \in StudentCells,
          ps \in PartnerStatuses, pcells \in PartnerCells :
          table_record =
              [student |-> Row(ss, sd, sc),
               partner |-> IF submission.has_partner THEN Row(ps, FALSE, pcells)
                           ELSE NoRow]
    /\ sheet = table_record
    /\ loaded = table_record
    /\ write_queue = [w \in Parties |-> <<>>]
    /\ needs_human = NoReason
    /\ work_in_progress = ""
    /\ pc = "apply"
    /\ idx = 1
    /\ fl = [who |-> "student", pos |-> 1, ret |-> "apply"]
    /\ slack = [suppressed |-> FALSE, updates |-> <<>>, warnings |-> <<>>]
    /\ emails = <<>>
    /\ error = "None"
    /\ processed = <<>>

\* record.flush() of `who`, after which the evaluation continues at `ret`
BeginFlush(who, ret) ==
    /\ pc' = "flush"
    /\ fl' = [who |-> who, pos |-> 1, ret |-> ret]

\* ------------------------------------------------------------ Policy.apply
\* a plausible slip: step 1 misses its return
AfterMeetingFallsThrough == "process_submission"

\* where apply goes after step 1 when the student asked for a meeting
AfterMeeting == "done"

\* apply, up to and including step 1
Apply ==
    /\ pc = "apply"
    /\ slack' =
          LET sl == IF silent THEN [slack EXCEPT !.suppressed = TRUE] ELSE slack
          IN  IF ~knows_assignments
              THEN send_student_update(sl, MsgMeeting, NoReason, FALSE)
              ELSE sl
    /\ IF ~knows_assignments
       THEN /\ write_queue' =
                [write_queue EXCEPT !.student = set_status_requested_meeting(@)]
            /\ pc' = AfterMeeting
       ELSE /\ pc' = "process_submission"
            /\ UNCHANGED write_queue
    /\ UNCHANGED <<env, assignments, submission, silent, table_record, sheet,
                   needs_human, work_in_progress, idx, fl, emails, error,
                   processed, loaded>>

\* process_submission: the check before the loop
CheckNumRequests ==
    /\ pc = "process_submission"
    /\ needs_human' =
          IF ~claims_dsp /\ get_num_requests > env.auto_approve_assignment_threshold
          THEN [rule |-> "too many requests", num |-> get_num_requests]
          ELSE NoReason
    /\ idx' = 1
    /\ pc' = "requests"
    /\ UNCHANGED <<env, assignments, submission, silent, table_record,
                   write_queue, sheet, work_in_progress, fl, slack, emails,
                   error, processed, loaded>>

\* a plausible slip: the thresholds are compared with >= instead of >
FlagCaseInclusive(assignment, num_days) ==
    IF ~claims_dsp /\ num_days >= env.auto_approve_threshold
    THEN IF env.auto_approve_threshold <= 0
         THEN [rule |-> "auto-approve is disabled", num |-> 0]
         ELSE [rule |-> "threshold", num |-> num_days]
    ELSE IF claims_dsp /\ num_days >= env.auto_approve_threshold_dsp
    THEN [rule |-> "DSP threshold", num |-> num_days]
    ELSE IF is_past_due(assignment, submission.timestamp)
    THEN [rule |-> "retroactive", num |-> 0]
    ELSE NoReason

\* a plausible slip: flag case #3 is only looked at for non-DSP requests
FlagCaseRetroactiveNonDsp(assignment, num_days) ==
    IF ~claims_dsp /\ num_days > env.auto_approve_threshold
    THEN IF env.auto_approve_threshold <= 0
         THEN [rule |-> "auto-approve is disabled", num |-> 0]
         ELSE [rule |-> "threshold", num |-> num_days]
    ELSE IF claims_dsp /\ num_days > env.auto_approve_threshold_dsp
    THEN [rule |-> "DSP threshold", num |-> num_days]
    ELSE IF ~claims_dsp /\ is_past_due(assignment, submission.timestamp)
    THEN [rule |-> "retroactive", num |-> 0]
    ELSE NoReason

\* the flag cases of one pair: the reason it sets, or NoReason
FlagCase(assignment, num_days) ==
    IF ~claims_dsp /\ num_days > env.auto_approve_threshold
    THEN IF env.auto_approve_threshold <= 0
         THEN [rule |-> "auto-approve is disabled", num |-> 0]
         ELSE [rule |-> "threshold", num |-> num_days]
    ELSE IF claims_dsp /\ num_days > env.auto_approve_threshold_dsp
    THEN [rule |-> "DSP threshold", num |-> num_days]
    ELSE IF is_past_due(assignment, submission.timestamp)
    THEN [rule |-> "retroactive", num |-> 0]
    ELSE NoReason

\* the tie-break of one pair: the days the request is treated as
EffectiveDays(existing_request, num_days) ==
    IF Truthy(existing_request) /\ num_days <= existing_request.value
    THEN existing_request.value
    ELSE num_days

\* a plausible slip: the first reason is kept instead of the last
RetainReasonFirstWins(current, flag) ==
    IF current # NoReason THEN current ELSE flag

\* needs_human after the flag cases of one pair
RetainReason(current, flag) ==
    IF flag # NoReason THEN flag ELSE current

\* a plausible slip: the partner gets the write whether the assignment is shared or not
PartnerGetsWriteAlways(assignment) == has_partner

\* whether the pair is queued on the partner's record as well
PartnerGetsWrite(assignment) ==
    is_partner_assignment(assignment) /\ has_partner

\* process_submission: one pass of the loop over get_requests()
ProcessRequest ==
    /\ pc = "requests"
    /\ idx <= Len(submission.requests)
    /\ LET assignment == submission.requests[idx].assignment
           requested == submission.requests[idx].num_days
           existing_request == get_request(table_record.student, assignment)
           kept == Truthy(existing_request) /\ requested <= existing_request.value
           num_days == EffectiveDays(existing_request, requested)
           flag == FlagCase(assignment, num_days)
       IN  IF existing_request.raised
           THEN /\ pc' = "raised"
                /\ error' = "StudentRecordError"
                /\ UNCHANGED <<needs_human, write_queue, slack, idx, processed>>
           ELSE /\ slack' = IF kept
                            THEN add_warning(slack,
                                    [kind |-> "kept existing", assignment |-> assignment,
                                     num_days |-> requested,
                                     existing |-> existing_request.value])
                            ELSE slack
                /\ needs_human' = RetainReason(needs_human, flag)
                /\ write_queue' =
                      [student |->
                          queue_write_back(write_queue.student, assignment,
                                           IntValue(num_days)),
                       partner |->
                          IF PartnerGetsWrite(assignment)
                          THEN queue_write_back(write_queue.partner, assignment,
                                                IntValue(num_days))
                          ELSE write_queue.partner]
                /\ processed' =
                      Append(processed,
                             [assignment |-> assignment, requested |-> requested,
                              existing |-> existing_request, num_days |-> num_days,
                              flag |-> flag])
                /\ idx' = idx + 1
                /\ UNCHANGED <<pc, error>>
    /\ UNCHANGED <<env, assignments, submission, silent, table_record, sheet,
                   work_in_progress, fl, emails, loaded>>

\* process_submission after the loop, and apply's step 2 when nothing is flagged
FinishRequests ==
    /\ pc = "requests"
    /\ idx > Len(submission.requests)
    /\ IF needs_human # NoReason
       THEN /\ write_queue' = [write_queue EXCEPT !.student = set_status_pending(@)]
            /\ BeginFlush("student", "pending_partner")
       ELSE /\ pc' = "check_work_in_progress"
            /\ UNCHANGED <<write_queue, fl>>
    /\ UNCHANGED <<env, assignments, submission, silent, table_record, sheet,
                   needs_human, work_in_progress, idx, slack, emails, error,
                   processed, loaded>>

\* a plausible slip: the partner is marked pending but never flushed
PendingPartnerNoFlush ==
    /\ pc = "pending_partner"
    /\ write_queue' =
          IF has_partner
          THEN [write_queue EXCEPT !.partner = set_status_pending(@)]
          ELSE write_queue
    /\ pc' = "needs_human"
    /\ UNCHANGED <<env, assignments, submission, silent, table_record, sheet,
                   needs_human, work_in_progress, idx, fl, slack, emails, error,
                   processed, loaded>>

\* process_submission: the partner's half of the pending branch
PendingPartner ==
    /\ pc = "pending_partner"
    /\ IF has_partner
       THEN /\ write_queue' = [write_queue EXCEPT !.partner = set_status_pending(@)]
            /\ BeginFlush("partner", "needs_human")
       ELSE /\ pc' = "needs_human"
            /\ UNCHANGED <<write_queue, fl>>
    /\ UNCHANGED <<env, assignments, submission, silent, table_record, sheet,
                   needs_human, work_in_progress, idx, slack, emails, error,
                   processed, loaded>>

\* apply step 2: the submission needs a human
NotifyNeedsHuman ==
    /\ pc = "needs_human"
    /\ slack' = send_student_update(slack, MsgNeedsReview, needs_human, FALSE)
    /\ pc' = "done"
    /\ UNCHANGED <<env, assignments, submission, silent, table_record,
                   write_queue, sheet, needs_human, work_in_progress, idx, fl,
                   emails, error, processed, loaded>>


\* ------------------------------------------------- StudentRecord.flush
\* dispatch_writes: one pass of its loop, the cell write succeeding
DispatchWrite ==
    /\ pc = "flush"
    /\ fl.pos <= Len(write_queue[fl.who])
    /\ LET col_key == write_queue[fl.who][fl.pos].col_key
           value == write_queue[fl.who][fl.pos].col_value
       IN  /\ sheet' = [sheet EXCEPT ![fl.who][col_key] = value]
           /\ table_record' = [table_record EXCEPT ![fl.who][col_key] = value]
    /\ fl' = [fl EXCEPT !.pos = @ + 1]
    /\ UNCHANGED <<env, assignments, submission, silent, write_queue,
                   needs_human, work_in_progress, pc, idx, slack, emails, error,
                   processed, loaded>>

\* a plausible slip: the local object is updated before the cell write, which raises
DispatchFailsAfterLocalUpdate ==
    /\ pc = "flush"
    /\ fl.pos <= Len(write_queue[fl.who])
    /\ table_record' =
          [table_record EXCEPT ![fl.who][write_queue[fl.who][fl.pos].col_key] =
              write_queue[fl.who][fl.pos].col_value]
    /\ pc' = "raised"
    /\ error' = "StoreWriteFailure"
    /\ UNCHANGED <<env, assignments, submission, silent, write_queue, sheet,
                   needs_human, work_in_progress, idx, fl, slack, emails,
                   processed, loaded>>

\* a plausible slip: the failed cell write is noted and the loop goes on
DispatchFailsSkipsCell ==
    /\ pc = "flush"
    /\ fl.pos <= Len(write_queue[fl.who])
    /\ fl' = [fl EXCEPT !.pos = @ + 1]
    /\ error' = "StoreWriteFailure"
    /\ UNCHANGED <<env, assignments, submission, silent, table_record,
                   write_queue, sheet, needs_human, work_in_progress, pc, idx,
                   slack, emails, processed, loaded>>

\* dispatch_writes: sheet.update_cell raises
DispatchFails ==
    /\ pc = "flush"
    /\ fl.pos <= Len(write_queue[fl.who])
    /\ pc' = "raised"
    /\ error' = "StoreWriteFailure"
    /\ UNCHANGED <<env, assignments, submission, silent, table_record,
                   write_queue, sheet, needs_human, work_in_progress, idx, fl,
                   slack, emails, processed, loaded>>

\* a plausible slip: flush leaves the dispatched writes in the queue
FlushReturnKeepsQueue ==
    /\ pc = "flush"
    /\ fl.pos > Len(write_queue[fl.who])
    /\ pc' = fl.ret
    /\ UNCHANGED <<env, assignments, submission, silent, table_record,
                   write_queue, sheet, needs_human, work_in_progress, idx, fl,
                   slack, emails, error, processed, loaded>>

\* flush returns once every queued write is dispatched
FlushReturn ==
    /\ pc = "flush"
    /\ fl.pos > Len(write_queue[fl.who])
    /\ write_queue' = [write_queue EXCEPT ![fl.who] = <<>>]
    /\ pc' = fl.ret
    /\ UNCHANGED <<env, assignments, submission, silent, table_record, sheet,
                   needs_human, work_in_progress, idx, fl, slack, emails, error,
                   processed, loaded>>

\* ------------------------------------------- Policy.check_work_in_progress
\* a plausible slip: case (2), the partner's work-in-progress, is not looked at
WipCaseStudentOnly ==
    IF has_partner /\ has_wip_status(table_record.student) THEN "student"
    ELSE IF has_wip_status(table_record.student) THEN "solo"
    ELSE "none"

\* which case of check_work_in_progress applies
WipCase ==
    IF has_partner /\ has_wip_status(table_record.student) THEN "student"
    ELSE IF has_partner /\ has_wip_status(table_record.partner) THEN "partner"
    ELSE IF has_wip_status(table_record.student) THEN "solo"
    ELSE "none"

\* a plausible slip: case (3) marks the student pending as case (2) does
CheckWorkInProgressSoloPending ==
    /\ pc = "check_work_in_progress"
    /\ IF WipCase = "student" THEN BeginFlush("student", "blocked_on_student")
       ELSE IF WipCase = "partner" THEN BeginFlush("partner", "blocked_on_partner")
       ELSE IF WipCase = "solo" THEN BeginFlush("student", "wip_solo")
       ELSE /\ pc' = "check_for_warnings"
            /\ UNCHANGED fl
    /\ write_queue' =
          IF WipCase = "solo"
          THEN [write_queue EXCEPT !.student = set_status_pending(@)]
          ELSE write_queue
    /\ UNCHANGED <<env, assignments, submission, silent, table_record, sheet,
                   needs_human, work_in_progress, idx, slack, emails, error,
                   processed, loaded>>

CheckWorkInProgress ==
    /\ pc = "check_work_in_progress"
    /\ IF WipCase = "student" THEN BeginFlush("student", "blocked_on_student")
       ELSE IF WipCase = "partner" THEN BeginFlush("partner", "blocked_on_partner")
       ELSE IF WipCase = "solo" THEN BeginFlush("student", "wip_solo")
       ELSE /\ pc' = "check_for_warnings"
            /\ UNCHANGED fl
    /\ UNCHANGED <<env, assignments, submission, silent, table_record,
                   write_queue, sheet, needs_human, work_in_progress, idx,
                   slack, emails, error, processed, loaded>>

\* case (1) after the student's flush
BlockedOnStudent ==
    /\ pc = "blocked_on_student"
    /\ write_queue' = [write_queue EXCEPT !.partner = set_status_pending(@)]
    /\ BeginFlush("partner", "wip_student")
    /\ UNCHANGED <<env, assignments, submission, silent, table_record, sheet,
                   needs_human, work_in_progress, idx, slack, emails, error,
                   processed, loaded>>

\* a plausible slip: case (2) flushes the student without marking it pending
BlockedOnPartnerNoPending ==
    /\ pc = "blocked_on_partner"
    /\ BeginFlush("student", "wip_partner")
    /\ UNCHANGED <<env, assignments, submission, silent, table_record,
                   write_queue, sheet, needs_human, work_in_progress, idx,
                   slack, emails, error, processed, loaded>>

\* case (2) after the partner's flush
BlockedOnPartner ==
    /\ pc = "blocked_on_partner"
    /\ write_queue' = [write_queue EXCEPT !.student = set_status_pending(@)]
    /\ BeginFlush("student", "wip_partner")
    /\ UNCHANGED <<env, assignments, submission, silent, table_record, sheet,
                   needs_human, work_in_progress, idx, slack, emails, error,
                   processed, loaded>>

\* the message of the case that fired, and apply's step 3
NotifyWorkInProgress ==
    /\ pc \in {"wip_student", "wip_partner", "wip_solo"}
    /\ work_in_progress' =
          IF pc = "wip_student" THEN MsgWipStudent
          ELSE IF pc = "wip_partner" THEN MsgWipPartner
          ELSE MsgWipSolo
    /\ slack' = send_student_update(slack, work_in_progress', NoReason, FALSE)
    /\ pc' = "done"
    /\ UNCHANGED <<env, assignments, submission, silent, table_record,
                   write_queue, sheet, needs_human, idx, fl, emails, error,
                   processed, loaded>>

\* ------------------------------------------------ Policy.check_for_warnings
\* a plausible slip: the `not` of the roster flag is missing
CheckForWarningsMarked ==
    /\ pc = "check_for_warnings"
    /\ slack' =
          IF claims_dsp /\ is_dsp(table_record.student)
          THEN add_warning(slack,
                  [kind |-> "not marked for DSP", assignment |-> "",
                   num_days |-> 0, existing |-> 0])
          ELSE slack
    /\ pc' = "approve"
    /\ UNCHANGED <<env, assignments, submission, silent, table_record,
                   write_queue, sheet, needs_human, work_in_progress, idx, fl,
                   emails, error, processed, loaded>>

CheckForWarnings ==
    /\ pc = "check_for_warnings"
    /\ slack' =
          IF claims_dsp /\ ~is_dsp(table_record.student)
          THEN add_warning(slack,
                  [kind |-> "not marked for DSP", assignment |-> "",
                   num_days |-> 0, existing |-> 0])
          ELSE slack
    /\ pc' = "approve"
    /\ UNCHANGED <<env, assignments, submission, silent, table_record,
                   write_queue, sheet, needs_human, work_in_progress, idx, fl,
                   emails, error, processed, loaded>>

\* ----------------------------------------------------------- Policy.approve
Approve ==
    /\ pc = "approve"
    /\ write_queue' = [write_queue EXCEPT !.student = set_status_approved(@)]
    /\ BeginFlush("student", "approve_partner")
    /\ UNCHANGED <<env, assignments, submission, silent, table_record, sheet,
                   needs_human, work_in_progress, idx, slack, emails, error,
                   processed, loaded>>

ApprovePartner ==
    /\ pc = "approve_partner"
    /\ IF ~has_partner
       THEN /\ slack' = send_student_update(slack, MsgApproved, NoReason, TRUE)
            /\ pc' = "send_email"
            /\ UNCHANGED <<write_queue, fl>>
       ELSE /\ write_queue' = [write_queue EXCEPT !.partner = set_status_approved(@)]
            /\ BeginFlush("partner", "approved")
            /\ UNCHANGED slack
    /\ UNCHANGED <<env, assignments, submission, silent, table_record, sheet,
                   needs_human, work_in_progress, idx, emails, error, processed,
                   loaded>>

ApproveNotify ==
    /\ pc = "approved"
    /\ slack' = send_student_update(slack, MsgApprovedPartner, NoReason, TRUE)
    /\ pc' = "send_email"
    /\ UNCHANGED <<env, assignments, submission, silent, table_record,
                   write_queue, sheet, needs_human, work_in_progress, idx, fl,
                   emails, error, processed, loaded>>

\* ------------------------------------------------ apply step 6, send_email
\* whom the next send_email of step 6 targets, given the position
EmailTarget == IF pc = "send_email" THEN "student" ELSE "partner"

\* a plausible slip: the partner's e-mail is forgotten
AfterEmailStudentOnly == "done"

\* where step 6 goes after a send_email that returned
AfterEmail ==
    IF pc = "send_email" /\ has_partner THEN "send_email_partner" ELSE "done"

SkipEmail ==
    /\ pc = "send_email"
    /\ silent
    /\ pc' = "done"
    /\ UNCHANGED <<env, assignments, submission, silent, table_record,
                   write_queue, sheet, needs_human, work_in_progress, idx, fl,
                   slack, emails, error, processed, loaded>>

SendEmail ==
    /\ pc \in {"send_email", "send_email_partner"}
    /\ ~silent
    /\ emails' = Append(emails, [target |-> EmailTarget, sent |-> TRUE])
    /\ pc' = AfterEmail
    /\ UNCHANGED <<env, assignments, submission, silent, table_record,
                   write_queue, sheet, needs_human, work_in_progress, idx, fl,
                   slack, error, processed, loaded>>

\* a plausible slip: the exception of the e-mail is swallowed
SendEmailFailsSwallowed ==
    /\ pc \in {"send_email", "send_email_partner"}
    /\ ~silent
    /\ emails' = Append(emails, [target |-> EmailTarget, sent |-> FALSE])
    /\ pc' = AfterEmail
    /\ UNCHANGED <<env, assignments, submission, silent, table_record,
                   write_queue, sheet, needs_human, work_in_progress, idx, fl,
                   slack, error, processed, loaded>>

\* Email.from_student_record or email.send raises
SendEmailFails ==
    /\ pc \in {"send_email", "send_email_partner"}
    /\ ~silent
    /\ emails' = Append(emails, [target |-> EmailTarget, sent |-> FALSE])
    /\ pc' = "raised"
    /\ error' = "KnownError"
    /\ UNCHANGED <<env, assignments, submission, silent, table_record,
                   write_queue, sheet, needs_human, work_in_progress, idx, fl,
                   slack, processed, loaded>>

Next ==
    \/ Apply
    \/ CheckNumRequests
    \/ ProcessRequest
    \/ FinishRequests
    \/ PendingPartner
    \/ NotifyNeedsHuman
    \/ DispatchWrite
    \/ DispatchFails
    \/ FlushReturn
    \/ CheckWorkInProgress
    \/ BlockedOnStudent
    \/ BlockedOnPartner
    \/ NotifyWorkInProgress
    \/ CheckForWarnings
    \/ Approve
    \/ ApprovePartner
    \/ ApproveNotify
    \/ SkipEmail
    \/ SendEmail
    \/ SendEmailFails

Spec == Init /\ [][Next]_vars


\* ------------------------------------------- a StudentRecord on its own
\* A caller that queues writes on the student's record and flushes it, any
\* number of times: "caller" when something may be pending, "flushed" and
\* "reflushed" when a flush has returned and nothing was queued since.
MaxQueue == 2

CallerPositions == {"caller", "flushed", "reflushed"}

RecordInit ==
    /\ env = [auto_approve_threshold |-> 0, auto_approve_threshold_dsp |-> 1,
              auto_approve_assignment_threshold |-> 1]
    /\ assignments = [hw1 |-> [due_date |-> 1, partner |-> FALSE],
                      proj1 |-> [due_date |-> 1, partner |-> TRUE]]
    /\ submission = [requests |-> <<>>, claims_dsp |-> FALSE,
                     has_partner |-> FALSE, timestamp |-> 1]
    /\ silent = FALSE
    /\ \E sc \in StudentCells :
          table_record = [student |-> Row("", FALSE, sc), partner |-> NoRow]
    /\ sheet = table_record
    /\ loaded = table_record
    /\ write_queue = [w \in Parties |-> <<>>]
    /\ needs_human = NoReason
    /\ work_in_progress = ""
    /\ pc = "caller"
    /\ idx = 1
    /\ fl = [who |-> "student", pos |-> 1, ret |-> "apply"]
    /\ slack = [suppressed |-> FALSE, updates |-> <<>>, warnings |-> <<>>]
    /\ emails = <<>>
    /\ error = "None"
    /\ processed = <<>>

\* record.queue_write_back(col_key, col_value)
RecordQueueWrite ==
    /\ pc \in CallerPositions
    /\ Len(write_queue.student) < MaxQueue
    /\ \E col_key \in AssignmentIds \cup {"approval_status"}, num_days \in Days :
          write_queue' =
              [write_queue EXCEPT !.student =
                  IF col_key = "approval_status"
                  THEN queue_approval_status(@, APPROVAL_STATUS_PENDING)
                  ELSE queue_write_back(@, col_key, IntValue(num_days))]
    /\ pc' = "caller"
    /\ UNCHANGED <<env, assignments, submission, silent, table_record, sheet,
                   needs_human, work_in_progress, idx, fl, slack, emails, error,
                   processed, loaded>>

\* record.flush()
RecordFlush ==
    /\ pc \in CallerPositions
    /\ BeginFlush("student", IF pc = "caller" THEN "flushed" ELSE "reflushed")
    /\ UNCHANGED <<env, assignments, submission, silent, table_record,
                   write_queue, sheet, needs_human, work_in_progress, idx,
                   slack, emails, error, processed, loaded>>

RecordNext ==
    \/ RecordQueueWrite
    \/ RecordFlush
    \/ DispatchWrite
    \/ DispatchFails
    \/ FlushReturn

RecordSpec == RecordInit /\ [][RecordNext]_vars

\* ================================================================ properties
Present == IF has_partner THEN Parties ELSE {"student"}

\* the threshold that applies to the submission
Threshold ==
    IF claims_dsp THEN env.auto_approve_threshold_dsp ELSE env.auto_approve_threshold

ThresholdRules == {"auto-approve is disabled", "threshold", "DSP threshold"}

\* positions that belong to the work-in-progress escalation
WipPositions == {"blocked_on_student", "blocked_on_partner", "wip_student",
                 "wip_partner", "wip_solo"}

\* positions that belong to steps 4 to 6
ApprovalPositions == {"check_for_warnings", "approve", "approve_partner",
                      "approved", "send_email", "send_email_partner"}

Position == IF pc = "flush" THEN fl.ret ELSE pc

Returned == pc = "done"

EscalationFired ==
    \/ needs_human # NoReason
    \/ work_in_progress # ""
    \/ Position \in WipPositions

AutoApprovedOutcome ==
    /\ Returned
    /\ knows_assignments
    /\ needs_human = NoReason
    /\ work_in_progress = ""

Queues(w, status) ==
    \E i \in 1..Len(write_queue[w]) :
        /\ write_queue[w][i].col_key = "approval_status"
        /\ write_queue[w][i].col_value = StatusValue(status)

QueuesAssignment(w) ==
    \E i \in 1..Len(write_queue[w]) : write_queue[w][i].col_key \in AssignmentIds

NeverApproved(w) ==
    /\ ~Queues(w, APPROVAL_STATUS_AUTO_APPROVED)
    /\ get_status(table_record[w]) = APPROVAL_STATUS_AUTO_APPROVED
          => table_record[w]["approval_status"] = loaded[w]["approval_status"]
    /\ get_status(sheet[w]) = APPROVAL_STATUS_AUTO_APPROVED
          => sheet[w]["approval_status"] = loaded[w]["approval_status"]

\* the status `status` of w is in the local columns and in the store
StatusCommitted(w, status) ==
    /\ table_record[w]["approval_status"] = StatusValue(status)
    /\ sheet[w]["approval_status"] = StatusValue(status)

StatusAsLoaded(w) ==
    /\ table_record[w]["approval_status"] = loaded[w]["approval_status"]
    /\ sheet[w]["approval_status"] = loaded[w]["approval_status"]

\* whether the loop queued pair i on w's record
QueuedOn(w, i) ==
    \/ w = "student"
    \/ has_partner /\ is_partner_assignment(processed[i].assignment)

\* every value the loop queued on w's record is in w's columns and store row,
\* and w's other assignment columns are as loaded
WritesCommitted(w) ==
    /\ write_queue[w] = <<>>
    /\ \A i \in 1..Len(processed) :
          QueuedOn(w, i) =>
             /\ sheet[w][processed[i].assignment] = IntValue(processed[i].num_days)
             /\ table_record[w][processed[i].assignment] = IntValue(processed[i].num_days)
    /\ \A a \in AssignmentIds :
          (\A i \in 1..Len(processed) : processed[i].assignment = a => ~QueuedOn(w, i))
             => sheet[w][a] = loaded[w][a] /\ table_record[w][a] = loaded[w][a]

Warned(i) ==
    \E j \in 1..Len(slack.warnings) :
        /\ slack.warnings[j].kind = "kept existing"
        /\ slack.warnings[j].assignment = processed[i].assignment

\* C1: a submission without assignment requests ends as a meeting request: the
\* student's status Requested Meeting is set (queued on the student's record),
\* the sink is told, no assignment write is queued on any record, the partner
\* is neither flushed nor changed, and no e-mail is sent.
C1_MeetingRequest ==
    ~knows_assignments =>
        /\ pc \in {"apply", "done"}
        /\ error = "None"
        /\ Returned =>
              /\ write_queue.student =
                    <<[col_key |-> "approval_status",
                       col_value |-> StatusValue(APPROVAL_STATUS_REQUESTED_MEETING)]>>
              /\ slack.updates =
                    <<[message |-> MsgMeeting, reason |-> NoReason,
                       autoapprove |-> FALSE]>>
        /\ \A w \in Parties : ~QueuesAssignment(w)
        /\ write_queue.partner = <<>>
        /\ table_record.partner = loaded.partner
        /\ sheet.partner = loaded.partner
        /\ \A a \in AssignmentIds :
              table_record.student[a] = loaded.student[a]
              /\ sheet.student[a] = loaded.student[a]
        /\ emails = <<>>

C1_Witness == ~knows_assignments /\ Returned /\ has_partner

\* C2: once an escalation has fired (submission-level or work-in-progress) no
\* record is set to Auto Approved and no e-mail is sent; a record loaded with
\* a work-in-progress status never becomes Auto Approved, student or partner.
C2_EscalationNeverApproves ==
    /\ EscalationFired =>
          /\ emails = <<>>
          /\ Position \notin ApprovalPositions
          /\ \A w \in Parties : NeverApproved(w)
    /\ \A w \in Present :
          has_wip_status(loaded[w]) =>
             /\ NeverApproved(w)
             /\ get_status(table_record[w]) # APPROVAL_STATUS_AUTO_APPROVED
             /\ get_status(sheet[w]) # APPROVAL_STATUS_AUTO_APPROVED
             /\ emails = <<>>

C2_Witness ==
    /\ Returned
    /\ work_in_progress = MsgWipPartner
    /\ has_wip_status(loaded.partner)
    /\ ~has_wip_status(loaded.student)

\* C3: when process_submission yields a reason, the student and the partner
\* (if any) end Pending, both flushed with Pending and every queued assignment
\* value committed, one notification carries the reason, and neither the
\* work-in-progress check nor approval nor an e-mail follows.
C3_SubmissionEscalation ==
    needs_human # NoReason =>
        /\ Position \in {"requests", "pending_partner", "needs_human", "done", "raised"}
        /\ work_in_progress = ""
        /\ emails = <<>>
        /\ \A w \in Parties : NeverApproved(w)
        /\ Returned =>
              /\ \A w \in Present :
                    StatusCommitted(w, APPROVAL_STATUS_PENDING) /\ WritesCommitted(w)
              /\ ~has_partner =>
                    /\ table_record.partner = loaded.partner
                    /\ sheet.partner = loaded.partner
                    /\ write_queue.partner = <<>>
              /\ slack.updates =
                    <<[message |-> MsgNeedsReview, reason |-> needs_human,
                       autoapprove |-> FALSE]>>

C3_Witness ==
    /\ Returned
    /\ needs_human # NoReason
    /\ has_partner
    /\ Len(processed) = 2
    /\ sheet.partner["proj1"] # loaded.partner["proj1"]


ExpectedEmails ==
    IF silent THEN <<>>
    ELSE IF has_partner
    THEN <<[target |-> "student", sent |-> TRUE], [target |-> "partner", sent |-> TRUE]>>
    ELSE <<[target |-> "student", sent |-> TRUE]>>

\* C4 (as amended): when no escalation fires the student and the partner (if
\* any) end Auto Approved in columns and store with every queued assignment
\* write committed (a partner-shared one on both records); unless apply is
\* silent, in which case no e-mail is sent, send_email is called once for the
\* student and then, if that call returned, once for the partner; a call that
\* raises ends apply with the writes in place.
C4_AutoApproval ==
    /\ AutoApprovedOutcome =>
          /\ \A w \in Present :
                StatusCommitted(w, APPROVAL_STATUS_AUTO_APPROVED) /\ WritesCommitted(w)
          /\ emails = ExpectedEmails
          /\ Len(slack.updates) = 1
          /\ slack.updates[1].autoapprove
    /\ error = "KnownError" =>
          /\ ~silent
          /\ \A w \in Present :
                StatusCommitted(w, APPROVAL_STATUS_AUTO_APPROVED) /\ WritesCommitted(w)
          /\ emails \in {<<[target |-> "student", sent |-> FALSE]>>,
                         <<[target |-> "student", sent |-> TRUE],
                           [target |-> "partner", sent |-> FALSE]>>}

C4_Witness ==
    /\ AutoApprovedOutcome
    /\ has_partner
    /\ Len(emails) = 2
    /\ \E i \in 1..Len(processed) : processed[i].assignment = "proj1"

\* C4 as stated: an auto-approval calls send_email once per record present.
C4_Original ==
    AutoApprovedOutcome => Len(emails) = Cardinality(Present)

\* C5: for the general threshold (no DSP claim) and the DSP threshold (DSP
\* claim) alike, a pair whose effective days equal the applicable threshold
\* fires no threshold rule (and no rule at all unless it is past due), and a
\* pair of threshold + 1 effective days fires one and the evaluation escalates.
C5_ThresholdBoundary ==
    \A i \in 1..Len(processed) :
        /\ processed[i].num_days = Threshold =>
              /\ processed[i].flag.rule \notin ThresholdRules
              /\ ~is_past_due(processed[i].assignment, submission.timestamp)
                    => processed[i].flag = NoReason
        /\ processed[i].num_days = Threshold + 1 =>
              /\ processed[i].flag.rule \in ThresholdRules
              /\ needs_human # NoReason
              /\ Position \in {"requests", "pending_partner", "needs_human", "done", "raised"}

C5_Witness ==
    /\ Returned
    /\ claims_dsp
    /\ Len(processed) = 2
    /\ processed[1].num_days = Threshold
    /\ processed[2].num_days = Threshold + 1

C5_WitnessGeneral ==
    /\ AutoApprovedOutcome
    /\ ~claims_dsp
    /\ \A i \in 1..Len(processed) : processed[i].num_days = Threshold

\* C6 as stated: with a general threshold of zero or below and no DSP claim,
\* no submission that names an assignment is auto-approved.
C6_DisabledAlwaysEscalates ==
    (env.auto_approve_threshold <= 0 /\ ~claims_dsp /\ knows_assignments /\ Returned)
        => (needs_human # NoReason \/ work_in_progress # "")

\* C7 (as amended): a pair whose assignment is past due at the submission
\* timestamp always fires a rule, so the evaluation escalates and never
\* approves; the rule is the retroactive one when the pair's effective days
\* are within the applicable threshold, and it is the reason reported when no
\* later pair fires a rule.
C7_Retroactive ==
    \A i \in 1..Len(processed) :
        is_past_due(processed[i].assignment, submission.timestamp) =>
            /\ processed[i].flag # NoReason
            /\ needs_human # NoReason
            /\ processed[i].num_days <= Threshold =>
                  /\ processed[i].flag.rule = "retroactive"
                  /\ (\A j \in (i + 1)..Len(processed) : processed[j].flag = NoReason)
                        => needs_human.rule = "retroactive"
            /\ Position \notin ApprovalPositions \cup WipPositions
            /\ emails = <<>>
            /\ \A w \in Parties : NeverApproved(w)

C7_Witness ==
    /\ Returned
    /\ needs_human.rule = "retroactive"
    /\ Len(processed) = 2
    /\ claims_dsp

\* C7 as stated: a past-due pair whose requested days are within the threshold
\* makes the evaluation escalate with the retroactive reason.
C7_Original ==
    Returned =>
        \A i \in 1..Len(processed) :
            (/\ is_past_due(processed[i].assignment, submission.timestamp)
             /\ processed[i].requested <= Threshold)
                => needs_human.rule = "retroactive"

\* C8 as stated: whenever the student's record holds a prior length for the
\* assignment (blank being the only absent case, 0 a length like any other)
\* and the requested days are <= it, the value queued is the prior length and
\* a warning is added; the tie-break fires no rule by itself.
C8_TieBreak ==
    \A i \in 1..Len(processed) :
        (~processed[i].existing.none /\ processed[i].requested <= processed[i].existing.value)
            => /\ processed[i].num_days = processed[i].existing.value
               /\ Warned(i)
               /\ processed[i].flag = FlagCase(processed[i].assignment,
                                               processed[i].existing.value)


WipUpdate(message) ==
    <<[message |-> message, reason |-> NoReason, autoapprove |-> FALSE]>>

\* C9: with a partner and no submission-level reason, a work-in-progress
\* student is flushed with its status as loaded while the partner ends Pending
\* and flushed, the message naming the student's record; a work-in-progress
\* partner beside a student that is not is the mirror, the message naming the
\* partner; the two messages differ and neither case approves or e-mails.
C9_BlockedWithPartner ==
    /\ MsgWipStudent # MsgWipPartner
    /\ (Returned /\ has_partner /\ needs_human = NoReason /\ knows_assignments) =>
          /\ has_wip_status(loaded.student) =>
                /\ work_in_progress = MsgWipStudent
                /\ slack.updates = WipUpdate(MsgWipStudent)
                /\ StatusAsLoaded("student")
                /\ StatusCommitted("partner", APPROVAL_STATUS_PENDING)
          /\ (has_wip_status(loaded.partner) /\ ~has_wip_status(loaded.student)) =>
                /\ work_in_progress = MsgWipPartner
                /\ slack.updates = WipUpdate(MsgWipPartner)
                /\ StatusAsLoaded("partner")
                /\ StatusCommitted("student", APPROVAL_STATUS_PENDING)
          /\ work_in_progress # "" =>
                /\ \A w \in Parties : WritesCommitted(w) /\ NeverApproved(w)
                /\ emails = <<>>

C9_Witness ==
    /\ Returned
    /\ work_in_progress = MsgWipStudent
    /\ get_status(loaded.student) = APPROVAL_STATUS_REQUESTED_MEETING
    /\ get_status(loaded.partner) = APPROVAL_STATUS_MANUAL_APPROVED
    /\ Len(processed) = 2

C9_WitnessPartner ==
    /\ Returned
    /\ work_in_progress = MsgWipPartner
    /\ get_status(loaded.student) = ""
    /\ Len(processed) = 2

\* C10: without a partner and without a submission-level reason, a
\* work-in-progress student is flushed, so the queued assignment values are
\* committed, while its approval status stays as loaded in columns and store.
C10_SoloStatusUntouched ==
    (Returned /\ ~has_partner /\ needs_human = NoReason /\ knows_assignments
        /\ has_wip_status(loaded.student)) =>
        /\ work_in_progress = MsgWipSolo
        /\ slack.updates = WipUpdate(MsgWipSolo)
        /\ StatusAsLoaded("student")
        /\ WritesCommitted("student")
        /\ table_record.student["is_dsp"] = loaded.student["is_dsp"]
        /\ sheet.partner = loaded.partner
        /\ emails = <<>>

C10_Witness ==
    /\ Returned
    /\ work_in_progress = MsgWipSolo
    /\ get_status(sheet.student) = APPROVAL_STATUS_REQUESTED_MEETING
    /\ \E a \in AssignmentIds : sheet.student[a] # loaded.student[a]

\* the writes of w's queue that the flush in progress has not dispatched yet
Pending(w) ==
    IF pc \in {"flush", "raised"} /\ fl.who = w /\ fl.ret # "apply"
    THEN SubSeq(write_queue[w], fl.pos, Len(write_queue[w]))
    ELSE write_queue[w]

\* C11: a record's columns equal, key by key, what the store holds (the last
\* value dispatched, or the loaded one), also in the middle of a flush and
\* after a flush that failed partway; queue_write_back changes neither columns
\* nor store, and columns and store change only by dispatching the write at
\* the head of what is pending.
C11_ColumnsReflectDispatched ==
    /\ [](table_record = sheet)
    /\ [][/\ (\E w \in Parties : Len(write_queue'[w]) > Len(write_queue[w])) =>
                table_record' = table_record /\ sheet' = sheet
          /\ (table_record' # table_record \/ sheet' # sheet) =>
                /\ pc = "flush"
                /\ Pending(fl.who) # <<>>
                /\ Pending(fl.who)' = Tail(Pending(fl.who))
                /\ table_record' =
                      [table_record EXCEPT ![fl.who][Head(Pending(fl.who)).col_key] =
                          Head(Pending(fl.who)).col_value]
                /\ sheet' = table_record']_vars

C11_Witness ==
    /\ error = "StoreWriteFailure"
    /\ fl.pos = 2
    /\ Len(write_queue[fl.who]) = 3
    /\ table_record[fl.who] # loaded[fl.who]

\* C12: a flush of a record whose queue is empty, and a flush that follows a
\* flush that returned with nothing queued in between, only returns: no cell
\* write is attempted and columns and store stay as they are.
C12_FlushIdempotent ==
    [][(pc = "flush" /\ (write_queue[fl.who] = <<>> \/ fl.ret = "reflushed")) =>
          /\ pc' = fl.ret
          /\ sheet' = sheet
          /\ table_record' = table_record
          /\ write_queue' = write_queue]_vars

C12_Witness ==
    /\ pc = "reflushed"
    /\ \A a \in AssignmentIds : table_record.student[a] # loaded.student[a]

\* whether the student's cell for the assignment of pair i is non-blank and
\* not an integer
Malformed(i) ==
    LET result == PyStrip(PyStr(loaded.student[submission.requests[i].assignment]))
    IN  Len(result) > 0 /\ ~PyIntOk(result)

\* C13: when the existing length of a pair cannot be read (a non-blank cell
\* that is not an integer) the evaluation ends with the StudentRecordError at
\* that pair, whatever its position: it never gets past the loop, and no
\* flush has begun, so no cell of the store is written and no status is
\* queued or changed on either record, no notification and no e-mail is sent.
C13_DataIntegrityAborts ==
    /\ \A i \in 1..Len(submission.requests) :
          Malformed(i) =>
             /\ Position \in {"apply", "process_submission", "requests", "raised"}
             /\ Len(processed) < i
             /\ pc = "raised" => error = "StudentRecordError" /\ Len(processed) = i - 1
    /\ error = "StudentRecordError" =>
          /\ pc = "raised"
          /\ Malformed(Len(processed) + 1)
          /\ fl.ret = "apply"
          /\ sheet = loaded
          /\ table_record = loaded
          /\ \A w \in Parties, s \in StudentStatuses \cup PartnerStatuses
                                     \cup {APPROVAL_STATUS_AUTO_APPROVED} :
                ~Queues(w, s)
          /\ slack.updates = <<>>
          /\ emails = <<>>

C13_Witness ==
    /\ error = "StudentRecordError"
    /\ Len(processed) = 1
    /\ has_partner
    /\ needs_human # NoReason

\* C14: send_email is called only once the flushes of the student and of the
\* partner have returned; a call that raises leaves apply as a KnownError at
\* once (not swallowed, not tried again), and from the first call on the
\* store, the columns and the queues of both records stay as the flushes left
\* them, the statuses Auto Approved.
C14_EmailAfterFlushes ==
    /\ [](emails # <<>> =>
            /\ pc \in {"send_email_partner", "done", "raised"}
            /\ fl.ret = IF has_partner THEN "approved" ELSE "approve_partner"
            /\ \A w \in Present :
                  /\ write_queue[w] = <<>>
                  /\ StatusCommitted(w, APPROVAL_STATUS_AUTO_APPROVED)
            /\ \A i \in 1..Len(emails) :
                  /\ emails[i].target = IF i = 1 THEN "student" ELSE "partner"
                  /\ ~emails[i].sent =>
                        i = Len(emails) /\ pc = "raised" /\ error = "KnownError"
            /\ Len(emails) <= Cardinality(Present))
    /\ [](error = "KnownError" => emails # <<>> /\ ~emails[Len(emails)].sent)
    /\ [][emails # <<>> =>
            /\ sheet' = sheet
            /\ table_record' = table_record
            /\ write_queue' = write_queue
            /\ slack' = slack]_vars

C14_Witness ==
    /\ error = "KnownError"
    /\ Len(emails) = 2
    /\ \E a \in AssignmentIds : sheet.partner[a] # loaded.partner[a]

\* C15 as stated: once a non-silent evaluation with a partner has called
\* send_email for the student, it calls it for the partner before it ends,
\* whether the student's call returned or raised.
C15_PartnerEmailIndependent ==
    (has_partner /\ ~silent /\ emails # <<>> /\ pc \in {"done", "raised"}) =>
        \E i \in 1..Len(emails) : emails[i].target = "partner"

DspWarned ==
    \E j \in 1..Len(slack.warnings) : slack.warnings[j].kind = "not marked for DSP"

\* the consistency check of step 4 has run
PastWarnings ==
    \/ Position \in ApprovalPositions \ {"check_for_warnings"}
    \/ AutoApprovedOutcome
    \/ error = "KnownError"

\* C16 (as amended): once the escalation checks have cleared, a submission
\* that claims DSP for a student whose record is not marked DSP adds a warning
\* to the sink, and no other combination of the two flags does (a student
\* marked DSP who does not claim it is not warned about); the warning never
\* escalates nor keeps step 5 from approving.
C16_DspWarning ==
    /\ [](PastWarnings =>
            /\ DspWarned <=> (claims_dsp /\ ~is_dsp(loaded.student))
            /\ needs_human = NoReason
            /\ work_in_progress = "")
    /\ [](DspWarned =>
            \/ PastWarnings
            \/ error = "StoreWriteFailure" /\ fl.ret \in {"approve_partner", "approved"})
    /\ [](AutoApprovedOutcome =>
            StatusCommitted("student", APPROVAL_STATUS_AUTO_APPROVED))
    /\ [][pc = "check_for_warnings" => pc' = "approve"]_vars

C16_Witness ==
    /\ AutoApprovedOutcome
    /\ DspWarned
    /\ has_partner

\* C16 as stated: an auto-approved evaluation whose claim flag differs from
\* the record's flag, in either direction, has added the warning.
C16_Original ==
    AutoApprovedOutcome =>
        (claims_dsp # is_dsp(loaded.student) => DspWarned)

\* the granted length a row holds for an assignment, where it holds one
Granted(row, a) == get_assignment(row, a)

HasLength(row, a) == ~Granted(row, a).raised /\ ~Granted(row, a).none

\* C17 as stated: for the student and for the partner, the length the store
\* holds for an assignment is never less than the length the record held for
\* it when it was loaded.
C17_LengthsNeverDecrease ==
    \A w \in Present, a \in AssignmentIds :
        (HasLength(loaded[w], a) /\ HasLength(sheet[w], a)) =>
            Granted(sheet[w], a).value >= Granted(loaded[w], a).value

\* the writes the loop has queued on w's record for the first n pairs
RECURSIVE QueuedWrites(_, _)
QueuedWrites(w, n) ==
    IF n = 0 THEN <<>>
    ELSE QueuedWrites(w, n - 1) \o
         (IF QueuedOn(w, n)
          THEN <<[col_key |-> processed[n].assignment,
                  col_value |-> IntValue(processed[n].num_days)]>>
          ELSE <<>>)

IsPrefix(s, t) == Len(s) <= Len(t) /\ SubSeq(t, 1, Len(s)) = s

PastLoop ==
    knows_assignments
    /\ Position \notin {"apply", "process_submission", "requests", "raised"}

\* C18: the loop handles the pairs in submission order and, whether or not
\* the pair or an earlier one set a reason, queues exactly one write of the
\* pair's effective days on the student's record, and one on the partner's
\* record exactly when there is a partner and the assignment is shared; the
\* partner's columns of other assignments stay as loaded.
C18_QueueingIndependentOfEscalation ==
    /\ \A i \in 1..Len(processed) :
          /\ processed[i].assignment = submission.requests[i].assignment
          /\ processed[i].requested = submission.requests[i].num_days
          /\ processed[i].num_days =
                EffectiveDays(get_request(loaded.student, processed[i].assignment),
                              processed[i].requested)
    /\ pc = "requests" =>
          /\ Len(processed) = idx - 1
          /\ \A w \in Parties : write_queue[w] = QueuedWrites(w, Len(processed))
    /\ PastLoop => Len(processed) = Len(submission.requests)
    /\ \A w \in Parties :
          write_queue[w] # <<>> =>
             /\ IsPrefix(QueuedWrites(w, Len(processed)), write_queue[w])
             /\ ~QueuesAssignment(w) \/ Len(QueuedWrites(w, Len(processed))) > 0
             /\ \A j \in 1..Len(write_queue[w]) :
                   j > Len(QueuedWrites(w, Len(processed)))
                      => write_queue[w][j].col_key = "approval_status"
    /\ \A a \in AssignmentIds :
          (~has_partner \/ ~is_partner_assignment(a)) =>
             /\ sheet.partner[a] = loaded.partner[a]
             /\ table_record.partner[a] = loaded.partner[a]

C18_Witness ==
    /\ pc = "requests"
    /\ idx = 3
    /\ has_partner
    /\ processed[1].flag # NoReason
    /\ Len(write_queue.student) = 2
    /\ Len(write_queue.partner) = 1

\* the reason of the check before the loop
CountReason ==
    IF ~claims_dsp /\ get_num_requests > env.auto_approve_assignment_threshold
    THEN [rule |-> "too many requests", num |-> get_num_requests]
    ELSE NoReason

\* the reason of the last rule that fired up to pair n, the check before the
\* loop counting as the first rule
RECURSIVE LastFired(_)
LastFired(n) ==
    IF n = 0 THEN CountReason
    ELSE IF processed[n].flag # NoReason THEN processed[n].flag
    ELSE LastFired(n - 1)

\* C19: the reason retained is the one of the last rule that fired, the
\* too-many-requests check (no DSP claim and more requests than the maximum)
\* coming once before the pairs and then each pair in submission order; a
\* reason once set is never cleared, so the evaluation escalates with that
\* reason even when every later pair fires no rule.
C19_LastReasonWins ==
    /\ (knows_assignments /\ pc \notin {"apply", "process_submission"}) =>
          needs_human = LastFired(Len(processed))
    /\ \A i \in 1..Len(processed) :
          processed[i].flag = FlagCase(processed[i].assignment, processed[i].num_days)
    /\ LastFired(Len(processed)) # NoReason =>
          /\ Position \notin ApprovalPositions \cup WipPositions
                                \cup {"check_work_in_progress"}
          /\ emails = <<>>
          /\ work_in_progress = ""
          /\ Returned =>
                slack.updates =
                   <<[message |-> MsgNeedsReview,
                      reason |-> LastFired(Len(submission.requests)),
                      autoapprove |-> FALSE]>>

C19_Witness ==
    /\ Returned
    /\ Len(processed) = 2
    /\ CountReason # NoReason
    /\ processed[1].flag # NoReason
    /\ processed[2].flag = NoReason
    /\ slack.updates[1].reason = processed[1].flag

\* C20: a cell write that raises during any flush ends the evaluation there:
\* the exception leaves apply, and no store write, status change,
\* notification or e-mail follows; no notification was sent before it either,
\* so a record whose flush failed is never announced as approved or pending.
C20_StoreFailureIsFatal ==
    /\ [](error = "StoreWriteFailure" =>
            /\ pc = "raised"
            /\ fl.pos <= Len(write_queue[fl.who])
            /\ slack.updates = <<>>
            /\ emails = <<>>)
    /\ [][error # "StoreWriteFailure"]_vars
    /\ [][error' = "StoreWriteFailure" =>
            /\ pc = "flush"
            /\ sheet' = sheet
            /\ table_record' = table_record
            /\ write_queue' = write_queue]_vars

C20_Witness ==
    /\ error = "StoreWriteFailure"
    /\ fl.who = "partner"
    /\ fl.pos = 2
    /\ StatusCommitted("student", APPROVAL_STATUS_AUTO_APPROVED)
    /\ get_status(sheet.partner) # APPROVAL_STATUS_AUTO_APPROVED

====
